---- MODULE Spec2Model ----
(***************************************************************************)
(* Model of the lovibe agent orchestration workflow (the "code-agent"      *)
(* Inngest function): sandbox creation, the agent network turn loop with   *)
(* its three tools, completion detection, routing, output finalizers and   *)
(* the save-result step, run on a step-checkpointing runtime that may      *)
(* crash and replay the function.                                          *)
(*                                                                         *)
(* Strings are sequences of tokens.  A text of the coding agent is a       *)
(* sequence over "a" (ordinary text), "OPEN" (the tag <task_summary>) and  *)
(* "CLOSE" (the tag </task_summary>); both tags contain the substring      *)
(* "task_summary>" and ordinary text does not.                             *)
(***************************************************************************)
EXTENDS Integers, Sequences, FiniteSets, TLC

\* ------------------------------------------------------------------------
\* Bounds of the model
\* ------------------------------------------------------------------------
MaxEntries == 2
MaxChunks == 2
MaxAttempts == 2
MaxCrashes == 1
MaxTurnsTracked == 1
MaxRequests == 2
MaxToolSteps == 2

\* ------------------------------------------------------------------------
\* Values
\* ------------------------------------------------------------------------
Tokens == {"a", "OPEN", "CLOSE"}
Paths == {"p1", "p2"}
Contents == {"c1", "c2"}
Absent == "ABSENT"
Commands == {"ls", ""}
StdoutData == {"o1", "o2"}
StderrData == {"e1"}
Undefined == <<"UNDEFINED">>
NoError == "none"
ConnectError == "Error: Sandbox connection failed"
CommandError == "Error: exit status 1"
WriteError == "Error: Write failed"
ReadError == "Error: File not found"
GenericFailure == "Something went wrong. Please try again."
NoFragment == [present |-> FALSE, sandboxUrl |-> <<>>, title |-> <<>>, files |-> [p \in Paths |-> Absent]]

SeqsUpTo(S, n) == UNION {[1..k -> S] : k \in 0..n}
Texts ==
  {<<>>, <<"a">>, <<"OPEN", "a", "CLOSE">>, <<"a", "OPEN", "a", "CLOSE">>, <<"OPEN", "a">>, <<"CLOSE">>}
EmptyFiles == [p \in Paths |-> Absent]
FileMaps == [Paths -> Contents \cup {Absent}]
Keys(f) == {p \in Paths : f[p] # Absent}
FileEntries == [path : Paths, content : Contents]

RECURSIVE Join(_)
Join(chunks) == IF chunks = <<>> THEN <<>> ELSE Head(chunks) \o Join(Tail(chunks))

\* ------------------------------------------------------------------------
\* utils.ts: lastAssistantTextMessageContent
\* ------------------------------------------------------------------------
StringContent(t) == [type |-> "string", text |-> t, chunks |-> <<>>]
ChunksContent(cs) == [type |-> "chunks", text |-> <<>>, chunks |-> cs]
NullContent == [type |-> "null", text |-> <<>>, chunks |-> <<>>]
Message(r, c) == [role |-> r, content |-> c]

\* JavaScript truthiness of message.content: "" and null are falsy, any
\* array (also the empty one) is truthy.
Truthy(content) ==
  \/ content.type = "string" /\ content.text # <<>>
  \/ content.type = "chunks"

findLastIndex(output, role) ==
  LET hits == {i \in 1..Len(output) : output[i].role = role}
  IN IF hits = {} THEN 0 ELSE CHOOSE i \in hits : \A j \in hits : j <= i

lastAssistantTextMessageContentOfLastMessage(result) ==
  IF result.output = <<>> THEN Undefined
  ELSE LET message == result.output[Len(result.output)]
       IN IF message.role = "assistant" /\ Truthy(message.content)
          THEN IF message.content.type = "string"
               THEN message.content.text
               ELSE Join(message.content.chunks)
          ELSE Undefined

lastAssistantTextMessageContent(result) ==
  LET lastAssistantTextMessageIndex == findLastIndex(result.output, "assistant")
  IN IF lastAssistantTextMessageIndex = 0 THEN Undefined
     ELSE LET message == result.output[lastAssistantTextMessageIndex]
          IN IF Truthy(message.content)
             THEN IF message.content.type = "string"
                  THEN message.content.text
                  ELSE Join(message.content.chunks)
             ELSE Undefined

\* ------------------------------------------------------------------------
\* getSandbox: Sandbox.connect(sandboxId), then sandbox.setTimeout(
\* SANDBOX_TIMEOUT), then the handle is returned.  connects: whether
\* Sandbox.connect resolves.  calls: the calls made on the sandbox API, in
\* order.
\* ------------------------------------------------------------------------
SANDBOX_TIMEOUT == "SANDBOX_TIMEOUT"
NoTimeout == "none"
ConnectCall(id) == [op |-> "connect", id |-> id, timeoutMs |-> NoTimeout]
SetTimeoutCall(id, ms) == [op |-> "setTimeout", id |-> id, timeoutMs |-> ms]

getSandboxNoTimeout(id, connects) ==
  IF ~connects
  THEN [threw |-> TRUE, error |-> ConnectError, calls |-> <<ConnectCall(id)>>]
  ELSE [threw |-> FALSE, error |-> NoError, calls |-> <<ConnectCall(id)>>]

getSandbox(id, connects) ==
  IF ~connects
  THEN [threw |-> TRUE, error |-> ConnectError, calls |-> <<ConnectCall(id)>>]
  ELSE [threw |-> FALSE, error |-> NoError,
        calls |-> <<ConnectCall(id), SetTimeoutCall(id, SANDBOX_TIMEOUT)>>]

\* ------------------------------------------------------------------------
\* onResponse lifecycle handler and router of the agent network
\* ------------------------------------------------------------------------
\* text.includes("task_summary>")
IncludesTaskSummary(text) == \E i \in 1..Len(text) : text[i] \in {"OPEN", "CLOSE"}

onResponseExtract(summary, result) ==
  LET lastAssistantTextMessageText == lastAssistantTextMessageContent(result)
      first == CHOOSE i \in 1..Len(lastAssistantTextMessageText) :
                 /\ lastAssistantTextMessageText[i] = "OPEN"
                 /\ \A j \in 1..(i-1) : lastAssistantTextMessageText[j] # "OPEN"
      rest == SubSeq(lastAssistantTextMessageText, first + 1, Len(lastAssistantTextMessageText))
      close == CHOOSE i \in 1..Len(rest) :
                 /\ rest[i] = "CLOSE"
                 /\ \A j \in 1..(i-1) : rest[j] # "CLOSE"
  IN IF /\ lastAssistantTextMessageText # Undefined
        /\ \E i \in 1..Len(lastAssistantTextMessageText) : \E j \in (i+1)..Len(lastAssistantTextMessageText) :
             lastAssistantTextMessageText[i] = "OPEN" /\ lastAssistantTextMessageText[j] = "CLOSE"
     THEN SubSeq(rest, 1, close - 1)
     ELSE summary

\* Returns the new value of network.state.data.summary.
onResponse(summary, result) ==
  LET lastAssistantTextMessageText == lastAssistantTextMessageContent(result)
  IN IF lastAssistantTextMessageText # Undefined /\ lastAssistantTextMessageText # <<>>
     THEN IF IncludesTaskSummary(lastAssistantTextMessageText)
          THEN lastAssistantTextMessageText
          ELSE summary
     ELSE summary

routerStops(network) == "undefined"

routerFilesToo(network) ==
  IF network.state.data.summary # <<>> /\ Keys(network.state.data.files) # {}
  THEN "undefined" ELSE "codeAgent"

router(network) ==
  LET summary == network.state.data.summary
  IN IF summary # <<>> THEN "undefined" ELSE "codeAgent"

Network(s, f) == [state |-> [data |-> [summary |-> s, files |-> f]]]

\* ------------------------------------------------------------------------
\* Tool handlers (bodies of step.run("terminal"), step.run(
\* "createOrUpdateFiles") and step.run("readFiles"))
\* ------------------------------------------------------------------------
Returned(v) == [threw |-> FALSE, error |-> NoError, value |-> v]

CommandFailed(e, buffers) ==
  <<"Command failed", ": ", e, " \nstdout: ">> \o buffers.stdout \o <<" \nstderr: ">> \o buffers.stderr

\* connected: Sandbox.connect succeeds; onStdout/onStderr: the data the
\* callbacks receive before the command ends; error: what commands.run
\* throws (NoError when it resolves).
terminalNoStderr(command, connected, onStdout, onStderr, error) ==
  LET buffers == [stdout |-> onStdout, stderr |-> onStderr]
  IN IF ~connected THEN Returned(<<"Command failed", ": ", ConnectError, " \nstdout: ", " \nstderr: ">>)
     ELSE IF error # NoError THEN Returned(<<"Command failed", ": ", error, " \nstdout: ">> \o buffers.stdout)
     ELSE Returned(buffers.stdout)

terminal(command, connected, onStdout, onStderr, error) ==
  LET empty == [stdout |-> <<>>, stderr |-> <<>>]
      buffers == [stdout |-> onStdout, stderr |-> onStderr]
  IN IF ~connected THEN Returned(CommandFailed(ConnectError, empty))
     ELSE IF error # NoError THEN Returned(CommandFailed(error, buffers))
     ELSE Returned(buffers.stdout)

\* for (const file of files) { await sandbox.files.write(...);
\*                             updatedFiles[file.path] = file.content }
\* failAt = k: the k-th write throws (0: none does).
RECURSIVE writeLoop(_, _, _, _, _)
writeLoop(entries, i, failAt, updatedFiles, fs) ==
  IF i > Len(entries) THEN [error |-> NoError, updatedFiles |-> updatedFiles, fs |-> fs]
  ELSE IF i = failAt THEN [error |-> WriteError, updatedFiles |-> updatedFiles, fs |-> fs]
  ELSE writeLoop(entries, i + 1, failAt,
                 [updatedFiles EXCEPT ![entries[i].path] = entries[i].content],
                 [fs EXCEPT ![entries[i].path] = entries[i].content])

ObjectValue(f) == [isObject |-> TRUE, files |-> f, text |-> <<>>]
StringValue(t) == [isObject |-> FALSE, files |-> EmptyFiles, text |-> t]

\* The handler of createOrUpdateFiles.  updatedFiles is the object
\* network.state.data.files itself, so the loop's assignments are visible in
\* the state whatever the step returns.  Result: the step's return value,
\* network.state.data.files after the handler, the sandbox's files.
createOrUpdateFilesFresh(stateFiles, entries, connected, failAt, fs) ==
  LET run == writeLoop(entries, 1, failAt, EmptyFiles, fs)
      newFiles == IF ~connected THEN StringValue(<<"Error: ", ConnectError>>)
                  ELSE IF run.error # NoError THEN StringValue(<<"Error: ", run.error>>)
                  ELSE ObjectValue(run.updatedFiles)
  IN [threw |-> FALSE, newFiles |-> newFiles,
      files |-> IF newFiles.isObject THEN newFiles.files ELSE stateFiles,
      fs |-> IF connected THEN run.fs ELSE fs]

createOrUpdateFiles(stateFiles, entries, connected, failAt, fs) ==
  LET run == writeLoop(entries, 1, failAt, stateFiles, fs)
      newFiles == IF ~connected THEN StringValue(<<"Error: ", ConnectError>>)
                  ELSE IF run.error # NoError THEN StringValue(<<"Error: ", run.error>>)
                  ELSE ObjectValue(run.updatedFiles)
      aliased == IF connected THEN run.updatedFiles ELSE stateFiles
  IN [threw |-> FALSE, newFiles |-> newFiles,
      files |-> IF newFiles.isObject THEN newFiles.files ELSE aliased,
      fs |-> IF connected THEN run.fs ELSE fs]

\* for (const file of files) { content = await sandbox.files.read(file);
\*                             contents.push({ path: file, content }) }
RECURSIVE readLoopReversed(_, _, _, _, _)
readLoopReversed(paths, i, failAt, contents, fs) ==
  IF i > Len(paths) THEN [error |-> NoError, contents |-> contents]
  ELSE IF i = failAt \/ fs[paths[i]] = Absent THEN [error |-> ReadError, contents |-> contents]
  ELSE readLoopReversed(paths, i + 1, failAt,
                <<[path |-> paths[i], content |-> fs[paths[i]]]>> \o contents, fs)

RECURSIVE readLoop(_, _, _, _, _)
readLoop(paths, i, failAt, contents, fs) ==
  IF i > Len(paths) THEN [error |-> NoError, contents |-> contents]
  ELSE IF i = failAt \/ fs[paths[i]] = Absent THEN [error |-> ReadError, contents |-> contents]
  ELSE readLoop(paths, i + 1, failAt,
                Append(contents, [path |-> paths[i], content |-> fs[paths[i]]]), fs)

\* JSON.stringify of an array of {path, content} objects.
RECURSIVE stringifyElements(_)
stringifyElements(contents) ==
  IF contents = <<>> THEN <<>>
  ELSE <<"{\"path\":", contents[1].path, ",\"content\":", contents[1].content, "}">>
       \o (IF Len(contents) > 1 THEN <<",">> ELSE <<>>)
       \o stringifyElements(Tail(contents))

JSONstringify(contents) == <<"[">> \o stringifyElements(contents) \o <<"]">>

readFiles(paths, connected, failAt, fs) ==
  LET run == readLoop(paths, 1, failAt, <<>>, fs)
  IN IF ~connected THEN Returned(<<"Error: ", ConnectError>>)
     ELSE IF run.error # NoError THEN Returned(<<"Error: ", run.error>>)
     ELSE Returned(JSONstringify(run.contents))

\* ------------------------------------------------------------------------
\* save-result step
\* ------------------------------------------------------------------------
isErrorBoth(summary, files) == summary = <<>> /\ Keys(files) = {}

isError(summary, files) == summary = <<>> \/ Keys(files) = {}

ErrorRecord == [role |-> "ASSISTANT", type |-> "ERROR", content |-> <<GenericFailure>>,
                fragment |-> NoFragment]

ResultRecord(sandboxUrl, title, response, files) ==
  [role |-> "ASSISTANT", type |-> "RESULT", content |-> response,
   fragment |-> [present |-> TRUE, sandboxUrl |-> sandboxUrl, title |-> title, files |-> files]]

saveResult(summary, files, sandboxUrl, title, response) ==
  IF isError(summary, files) THEN ErrorRecord
  ELSE ResultRecord(sandboxUrl, title, response, files)

\* ------------------------------------------------------------------------
\* utils.ts: parseAgentOutput
\* ------------------------------------------------------------------------
TextMessage(c) == [type |-> "text", content |-> c]
ImageMessage(c) == [type |-> "image", content |-> c]
NullValue == <<"NULL">>
ObjectToString == "[object Object]"

\* output.content.map((txt) => txt).join(""): the elements are the chunk
\* objects themselves, and join converts each object with String().
joinElements(chunks) == [i \in 1..Len(chunks) |-> ObjectToString]

\* value[0] of an empty array is undefined and reading its type throws.
parseAgentOutput(value) ==
  IF value = <<>> THEN [threw |-> TRUE, error |-> "TypeError", value |-> Undefined]
  ELSE LET output == value[1]
       IN IF output.type # "text" THEN Returned(<<"Fragment">>)
          ELSE IF output.content.type = "chunks" THEN Returned(joinElements(output.content.chunks))
          ELSE IF output.content.type = "null" THEN Returned(NullValue)
          ELSE Returned(output.content.text)

FragmentTitleOutputs == {<<TextMessage(StringContent(<<"Parsed Title">>))>>}
ResponseOutputs ==
  {<<TextMessage(StringContent(<<"Parsed Response">>)), TextMessage(StringContent(<<"Second message">>))>>,
   <<TextMessage(ChunksContent(<<<<"a">>, <<"b">>>>))>>,
   <<ImageMessage(StringContent(<<"base64-image-data">>))>>}

\* ------------------------------------------------------------------------
\* Parameter schemas of the three tools (zod)
\* ------------------------------------------------------------------------
JString(x) == [t |-> "string", s |-> x]
JNumber(x) == [t |-> "number", s |-> x]
JBoolean(x) == [t |-> "boolean", s |-> x]
JNull == [t |-> "null", s |-> ""]
JUndefined == [t |-> "undefined", s |-> ""]
JArray(items) == [t |-> "array", items |-> items]
NotAnArray == [t |-> "string", items |-> <<>>]

zString(x) == x.t = "string"
zArray(x) == x.t = "array"

terminalSchema(args) == zString(args.command)

filesSchema(args) ==
  /\ zArray(args.files)
  /\ \A i \in 1..Len(args.files.items) :
       zString(args.files.items[i].path) /\ zString(args.files.items[i].content)

readFilesSchema(args) ==
  /\ zArray(args.files)
  /\ \A i \in 1..Len(args.files.items) : zString(args.files.items[i])

TerminalArgs ==
  {[command |-> c] : c \in {JString(x) : x \in Commands} \cup {JNumber("123"), JUndefined}}

EntryArgs(entries) ==
  JArray([i \in 1..Len(entries) |->
            [path |-> JString(entries[i].path), content |-> JString(entries[i].content)]])

FilesArgs ==
  {[files |-> EntryArgs(entries)] : entries \in SeqsUpTo(FileEntries, MaxEntries)}
  \cup {[files |-> JArray(<<[path |-> JString("p1"), content |-> JUndefined]>>)],
        [files |-> NotAnArray]}

ReadFilesArgs ==
  {[files |-> JArray([i \in 1..Len(paths) |-> JString(paths[i])])] :
     paths \in SeqsUpTo(Paths, MaxEntries)}
  \cup {[files |-> JArray(<<JNumber("123"), JString("p1")>>)], [files |-> NotAnArray]}

\* ------------------------------------------------------------------------
\* tRPC: the isAuthed middleware of protectedProcedure
\* ------------------------------------------------------------------------
Users == {"u1", "u2"}
UserIds ==
  {JString(u) : u \in Users} \cup {JString(""), JNumber("0"), JBoolean("false"), JNull, JUndefined}
Contexts ==
  {[auth |-> [t |-> "object", userId |-> id]] : id \in UserIds}
  \cup {[auth |-> [t |-> "null", userId |-> JUndefined]],
        [auth |-> [t |-> "undefined", userId |-> JUndefined]]}
NoContext == [auth |-> [t |-> "undefined", userId |-> JUndefined]]

\* JavaScript truthiness of a value.
JsTruthy(x) ==
  CASE x.t = "string" -> x.s # ""
    [] x.t = "number" -> x.s # "0"
    [] x.t = "boolean" -> x.s = "true"
    [] OTHER -> FALSE

NoTRPCError == [code |-> "", message |-> ""]
TRPCError(code, message) == [code |-> code, message |-> message]

isAuthedDefined(ctx) ==
  IF ctx.auth.t = "object" /\ ctx.auth.userId.t \notin {"null", "undefined"}
  THEN [next |-> TRUE, error |-> NoTRPCError]
  ELSE [next |-> FALSE, error |-> TRPCError("UNAUTHORIZED", "Not authenticated")]

\* next |-> TRUE: next({ ctx: { auth: ctx.auth } }) is called and its result
\* returned; otherwise the error is thrown.
isAuthed(ctx) ==
  IF ctx.auth.t = "object" /\ JsTruthy(ctx.auth.userId)
  THEN [next |-> TRUE, error |-> NoTRPCError]
  ELSE [next |-> FALSE, error |-> TRPCError("UNAUTHORIZED", "Not authenticated")]

\* ------------------------------------------------------------------------
\* usage.ts: the credit gate
\* ------------------------------------------------------------------------
FREE_POINTS == 10
PRO_POINTS == 150
DURATION == "30 days"
GENERATION_COST == 1
RateLimited == "RateLimiterRes"
NotAuthenticated == "User not authenticated"

\* usageTracker.consume(key, points) of a limiter with the given points.
consume(used, key, pointsToConsume, points) ==
  IF used[key] + pointsToConsume > points
  THEN [threw |-> TRUE, error |-> RateLimited, used |-> used]
  ELSE [threw |-> FALSE, error |-> NoError, used |-> [used EXCEPT ![key] = @ + pointsToConsume]]

\* has({ plan: "pro" }) of the session of user u: u2 is on the pro plan.
ProUsers == {"u2"}
has(u, plan) == plan = "pro" /\ u \in ProUsers

getUsageTrackerOnePlan(u) == [points |-> PRO_POINTS, duration |-> DURATION]

getUsageTracker(u) ==
  LET hasProAccess == has(u, "pro")
  IN [points |-> IF hasProAccess THEN PRO_POINTS ELSE FREE_POINTS, duration |-> DURATION]

consumeCreditsSwallow(userId, used) ==
  IF ~JsTruthy(userId) THEN [threw |-> FALSE, error |-> NoError, used |-> used]
  ELSE [consume(used, userId.s, GENERATION_COST, getUsageTracker(userId.s).points)
          EXCEPT !.threw = FALSE, !.error = NoError]

\* userId is what auth() gives.
consumeCredits(userId, used) ==
  IF ~JsTruthy(userId) THEN [threw |-> TRUE, error |-> NotAuthenticated, used |-> used]
  ELSE LET usageTracker == getUsageTracker(userId.s)
       IN consume(used, userId.s, GENERATION_COST, usageTracker.points)

\* ------------------------------------------------------------------------
\* messages router: getMany and create
\* ------------------------------------------------------------------------
MaxValueLength == 10000
\* A value is a string of that many characters.
Values == {0, 1, MaxValueLength, MaxValueLength + 1}
ProjectIds == {"", "pA", "pB", "pX"}
ProjectOwner == [p \in {"pA", "pB"} |-> IF p = "pA" THEN "u1" ELSE "u2"]
NoProject == "null"
CreateInputs == [value : Values, projectId : ProjectIds]
NoInput == [value |-> 0, projectId |-> ""]

\* z.object({ value: z.string().min(1).max(10000), projectId: z.string().min(1) })
createInputValidNoMax(input) ==
  /\ input.value >= 1
  /\ input.projectId # ""

createInputValid(input) ==
  /\ input.value >= 1
  /\ input.value <= MaxValueLength
  /\ input.projectId # ""

\* prisma.project.findUnique({ where: { id, userId } })
findUnique(id, userId) ==
  IF id \in DOMAIN ProjectOwner /\ ProjectOwner[id] = userId THEN id ELSE NoProject

UserMessage(projectId, value) ==
  [projectId |-> projectId, content |-> value, role |-> "USER", type |-> "RESULT"]

CodeAgentRun(value, projectId) ==
  [name |-> "code-agent/run", data |-> [value |-> value, projectId |-> projectId]]

RECURSIVE SelectRows(_, _, _)
SelectRows(rows, projectId, userId) ==
  IF rows = <<>> THEN <<>>
  ELSE LET row == Head(rows)
           rest == SelectRows(Tail(rows), projectId, userId)
       IN IF /\ row.data.projectId = projectId
             /\ row.data.projectId \in DOMAIN ProjectOwner
             /\ ProjectOwner[row.data.projectId] = userId
          THEN <<row.data>> \o rest ELSE rest

RECURSIVE SelectRowsOfProject(_, _, _)
SelectRowsOfProject(rows, projectId, userId) ==
  IF rows = <<>> THEN <<>>
  ELSE LET row == Head(rows)
           rest == SelectRowsOfProject(Tail(rows), projectId, userId)
       IN IF row.data.projectId = projectId THEN <<row.data>> \o rest ELSE rest

getManyAnyOwner(rows, projectId, userId) ==
  IF projectId = "" THEN [threw |-> TRUE, rows |-> <<>>]
  ELSE [threw |-> FALSE, rows |-> SelectRowsOfProject(rows, projectId, userId)]

\* prisma.message.findMany({ where: { projectId, project: { userId } },
\* orderBy: { updatedAt: "asc" } }); rows are kept in the order of updatedAt.
getMany(rows, projectId, userId) ==
  IF projectId = "" THEN [threw |-> TRUE, rows |-> <<>>]
  ELSE [threw |-> FALSE, rows |-> SelectRows(rows, projectId, userId)]

\* ------------------------------------------------------------------------
\* State
\* ------------------------------------------------------------------------
VARIABLES
  pc,            \* the statement of the function the process is at
  memo,          \* results of the checkpointed top-level steps
  netCkpt,       \* state rebuilt from the checkpointed steps of network.run
  sandboxId,     \* const sandboxId (0: not yet assigned)
  summary,       \* network.state.data.summary
  files,         \* network.state.data.files
  turns,         \* turns of the coding agent, counted up to MaxTurnsTracked
  title,         \* parseAgentOutput(fragmentTitleOutput)
  response,      \* parseAgentOutput(responseOutput)
  sandboxUrl,    \* const sandboxUrl
  sandboxFs,     \* files of the run's sandbox
  sandboxCount,  \* sandboxes created so far
  records,       \* assistant messages inserted by prisma.message.create
  lastTool,      \* the tool call whose result the agent is looking at
  lastResponse,  \* the last turn's assistant text and the summary before it
  attempts,      \* failed attempts of the current step
  crashes,       \* process crashes so far
  execCount,     \* how often each step's body has run
  sandboxExpired,\* the sandbox was reclaimed after its idle timeout
  requests,      \* the calls of messages.create and where each one is
  messages,      \* rows of the Message table written by messages.create
  events,        \* code-agent/run events sent to Inngest
  usage,         \* points each user has consumed in the current window
  lastConsume,   \* the last call of consumeCredits and its outcome
  fleet          \* runs of the function that are in progress at the same time

vars == <<pc, memo, netCkpt, sandboxId, summary, files, turns, title, response,
          sandboxUrl, sandboxFs, sandboxCount, records, lastTool, lastResponse,
          attempts, crashes, execCount, sandboxExpired, requests, messages, events, usage,
          lastConsume, fleet>>

webVars == <<requests, messages, events, usage>>
otherVars == <<lastConsume, fleet>>

StepNames == {"get-sandbox-id", "generators", "get-sandbox-url", "save-result"}
NoUrl == [scheme |-> "https", port |-> 0, sandboxId |-> 0]
NoTool == [kind |-> "none"]
NoResponse == [text |-> Undefined, before |-> <<>>, output |-> <<>>]
NoCall ==
  [pending |-> FALSE, args |-> [files |-> NotAnArray], fsBefore |-> EmptyFiles,
   filesBefore |-> EmptyFiles]
Min(a, b) == IF a < b THEN a ELSE b

Requests == 1..MaxRequests
IdleRequest ==
  [proc |-> "none", pc |-> "idle", ctx |-> NoContext, input |-> NoInput, error |-> NoTRPCError,
   lookups |-> 0, result |-> <<>>]
\* u1 has two credits left in the current window and u2 has one.
\* Each user has sent one message to their project before.
InitialMessages ==
  <<[req |-> 0, data |-> UserMessage("pA", 1)], [req |-> 0, data |-> UserMessage("pB", 1)]>>
InitialUsage ==
  [u \in Users |-> IF u = "u1" THEN getUsageTracker(u).points - 2 ELSE getUsageTracker(u).points - 1]

NoConsume == [called |-> FALSE, userId |-> JUndefined, threw |-> FALSE, error |-> NoError,
              before |-> 0, after |-> 0]

\* ------------------------------------------------------------------------
\* Runs of the function in progress at the same time.  Each run has its own
\* network state; the sandboxes and the runtime's store of step results are
\* shared by all runs.
\* ------------------------------------------------------------------------
\* Two runs in progress at the same time.
Runs == {1, 2}
MarkerText == <<"OPEN", "a", "CLOSE">>
FleetEntries == {<<[path |-> "p1", content |-> "c1"]>>, <<[path |-> "p2", content |-> "c2"]>>}
NoRun ==
  [pc |-> "get-sandbox-id", sandboxId |-> 0, summary |-> <<>>, files |-> EmptyFiles,
   calls |-> <<>>, results |-> <<>>, record |-> <<>>]
NoSandbox == [fs |-> EmptyFiles, commands |-> <<>>]
NoFleet ==
  [runs |-> [r \in Runs |-> NoRun], sandboxes |-> [i \in Runs |-> NoSandbox], created |-> 0,
   store |-> {}]

RunInit ==
  /\ pc = "get-sandbox-id"
  /\ memo = [sandboxId |-> 0, generators |-> FALSE, title |-> <<>>, response |-> <<>>,
             responseOutput |-> <<>>, sandboxUrl |-> NoUrl, saved |-> FALSE]
  /\ netCkpt = [summary |-> <<>>, files |-> EmptyFiles, turns |-> 0,
                filesAtDone |-> EmptyFiles, call |-> NoCall]
  /\ sandboxId = 0
  /\ summary = <<>>
  /\ files = EmptyFiles
  /\ turns = 0
  /\ title = <<>>
  /\ response = <<>>
  /\ sandboxUrl = NoUrl
  /\ sandboxFs = EmptyFiles
  /\ sandboxCount = 0
  /\ records = <<>>
  /\ lastTool = NoTool
  /\ lastResponse = NoResponse
  /\ attempts = 0
  /\ crashes = 0
  /\ execCount = [s \in StepNames |-> 0]
  /\ sandboxExpired = FALSE

WebInit ==
  /\ requests = [r \in Requests |-> IdleRequest]
  /\ messages = InitialMessages
  /\ events = <<>>

OtherInit ==
  /\ lastConsume = NoConsume
  /\ fleet = NoFleet

Init == RunInit /\ WebInit /\ usage = InitialUsage /\ OtherInit

\* ------------------------------------------------------------------------
\* The step runtime: a step whose result is checkpointed returns the
\* memoized result, any other step runs its body; a failed step is retried
\* until MaxAttempts attempts have failed, then the run fails.
\* ------------------------------------------------------------------------
Checkpointed(s) ==
  CASE s = "get-sandbox-id" -> memo.sandboxId # 0
    [] s = "generators" -> memo.generators
    [] s = "get-sandbox-url" -> memo.sandboxUrl # NoUrl
    [] s = "save-result" -> memo.saved

stepRunAlways(s) == TRUE

\* TRUE when step.run(s, fn) has to call fn.
stepRun(s) == ~Checkpointed(s)

Ran(s) == [execCount EXCEPT ![s] = @ + 1]

StepFailsForever ==
  /\ attempts' = attempts + 1
  /\ pc' = pc

StepFails ==
  /\ attempts' = attempts + 1
  /\ pc' = IF attempts + 1 >= MaxAttempts THEN "failed" ELSE pc

\* The agent loop awaits every model invocation and every tool call before
\* it starts the next one.
CallsOverlap == TRUE

NoCallInProgress == lastTool = NoTool

\* What a restarted process holds before it replays the function.
Restart ==
  /\ pc' = "get-sandbox-id"
  /\ sandboxId' = 0
  /\ summary' = <<>>
  /\ files' = EmptyFiles
  /\ turns' = 0
  /\ title' = <<>>
  /\ response' = <<>>
  /\ sandboxUrl' = NoUrl
  /\ lastTool' = NoTool
  /\ lastResponse' = NoResponse
  /\ crashes' = crashes + 1

Crash ==
  /\ pc \notin {"done", "failed"}
  /\ crashes < MaxCrashes
  /\ Restart
  /\ UNCHANGED <<memo, netCkpt, sandboxFs, sandboxCount, records, attempts, execCount>>
  /\ UNCHANGED <<sandboxExpired, webVars, otherVars>>

\* ------------------------------------------------------------------------
\* get-sandbox-id, then createState and network.run up to the first step of
\* the network that has no checkpoint
\* ------------------------------------------------------------------------
GetSandboxId ==
  /\ pc = "get-sandbox-id"
  /\ IF stepRun("get-sandbox-id")
     THEN /\ sandboxCount' = sandboxCount + 1
          /\ sandboxId' = sandboxCount + 1
          /\ sandboxFs' = EmptyFiles
          /\ memo' = [memo EXCEPT !.sandboxId = sandboxCount + 1]
          /\ execCount' = Ran("get-sandbox-id")
          /\ sandboxExpired' = FALSE
     ELSE /\ sandboxId' = memo.sandboxId
          /\ UNCHANGED <<sandboxCount, sandboxFs, memo, execCount, sandboxExpired>>
  /\ summary' = netCkpt.summary
  /\ files' = netCkpt.files
  /\ turns' = netCkpt.turns
  /\ pc' = IF router(Network(netCkpt.summary, netCkpt.files)) = "codeAgent"
           THEN "network" ELSE "generators"
  /\ attempts' = 0
  /\ UNCHANGED <<netCkpt, title, response, sandboxUrl, records, lastTool, lastResponse, crashes>>
  /\ UNCHANGED <<webVars, otherVars>>

\* The process dies after Sandbox.create returned and before the step's
\* result is checkpointed: the restarted function finds no checkpoint of
\* get-sandbox-id and runs the step again.
GetSandboxIdCrash ==
  /\ pc = "get-sandbox-id"
  /\ stepRun("get-sandbox-id")
  /\ crashes < MaxCrashes
  /\ sandboxCount' = sandboxCount + 1
  /\ sandboxFs' = EmptyFiles
  /\ sandboxExpired' = FALSE
  /\ execCount' = Ran("get-sandbox-id")
  /\ Restart
  /\ UNCHANGED <<memo, netCkpt, records, attempts>>
  /\ UNCHANGED <<webVars, otherVars>>

GetSandboxIdFails ==
  /\ pc = "get-sandbox-id"
  /\ stepRun("get-sandbox-id")
  /\ StepFails
  /\ execCount' = Ran("get-sandbox-id")
  /\ UNCHANGED <<memo, netCkpt, sandboxId, summary, files, turns, title, response,
                 sandboxUrl, sandboxFs, sandboxCount, records, lastTool, lastResponse, crashes>>
  /\ UNCHANGED <<sandboxExpired, webVars, otherVars>>

\* ------------------------------------------------------------------------
\* network.run: the coding agent calls tools and answers; after each answer
\* onResponse runs and the router decides whether another turn follows
\* ------------------------------------------------------------------------
AgentOutputs ==
  {<<Message("assistant", StringContent(t))>> : t \in Texts}
  \cup {<<Message("assistant", StringContent(t)), Message("tool", StringContent(<<"OPEN">>))>> :
          t \in {<<"a">>, <<"OPEN", "a", "CLOSE">>}}
  \cup {<<Message("assistant", ChunksContent(cs))>> :
          cs \in {<<>>, <<<<"a">>, <<"OPEN", "a">>>>}}
  \cup {<<>>, <<Message("user", StringContent(<<"OPEN", "CLOSE">>))>>,
        <<Message("assistant", NullContent)>>}

Invalid(tool, args) ==
  [kind |-> "invalid", tool |-> tool, args |-> args, before |-> files, fsBefore |-> sandboxFs,
   expired |-> sandboxExpired]

\* A tool call of the coding agent: the arguments are parsed against the
\* tool's schema and the handler runs only when they pass.  The handler
\* starts with getSandbox(sandboxId).
TerminalTool ==
  /\ pc = "network"
  /\ NoCallInProgress
  /\ ~netCkpt.call.pending
  /\ \E args \in TerminalArgs :
       IF ~terminalSchema(args) THEN lastTool' = Invalid("terminal", args)
       ELSE \E connects \in BOOLEAN, error \in {NoError, CommandError} :
            \E onStdout \in SeqsUpTo(StdoutData, MaxChunks), onStderr \in SeqsUpTo(StderrData, MaxChunks) :
              LET sandbox == getSandbox(sandboxId, connects)
                  connected == ~sandbox.threw
              IN /\ sandboxExpired => ~connects
                 /\ ~connects => (onStdout = <<>> /\ onStderr = <<>> /\ error = NoError)
                 /\ lastTool' = [kind |-> "terminal", args |-> args, command |-> args.command.s,
                                 connected |-> connects, expired |-> sandboxExpired,
                                 sandbox |-> sandbox, turn |-> turns,
                                 onStdout |-> onStdout, onStderr |-> onStderr, error |-> error,
                                 ret |-> terminal(args.command.s, connected, onStdout, onStderr, error)]
  /\ attempts' = 0
  /\ lastResponse' = NoResponse
  /\ UNCHANGED <<pc, memo, netCkpt, sandboxId, summary, files, turns, title, response,
                 sandboxUrl, sandboxFs, sandboxCount, records,
                 crashes, execCount>>
  /\ UNCHANGED <<sandboxExpired, webVars, otherVars>>

EntriesOf(args) ==
  [i \in 1..Len(args.files.items) |->
     [path |-> args.files.items[i].path.s, content |-> args.files.items[i].content.s]]

\* The calls the agent can issue now: any call, or, when the process died
\* inside a createOrUpdateFiles step, the call of that step again (the
\* model invocation that issued it is checkpointed).
FilesCalls == IF netCkpt.call.pending THEN {netCkpt.call.args} ELSE FilesArgs

CreateOrUpdateFilesTool ==
  /\ pc = "network"
  /\ NoCallInProgress
  /\ \E args \in FilesCalls :
       IF ~filesSchema(args)
       THEN /\ lastTool' = Invalid("createOrUpdateFiles", args)
            /\ UNCHANGED <<files, sandboxFs, netCkpt>>
       ELSE \E connects \in BOOLEAN : \E failAt \in 0..Len(args.files.items) :
              LET sandbox == getSandbox(sandboxId, connects)
                  connected == ~sandbox.threw
                  entries == EntriesOf(args)
                  r == createOrUpdateFiles(files, entries, connected, failAt, sandboxFs)
              IN /\ sandboxExpired => ~connects
                 /\ ~connects => failAt = 0
                 /\ files' = r.files
                 /\ sandboxFs' = r.fs
                 /\ netCkpt' = [netCkpt EXCEPT
                                  !.files = IF r.newFiles.isObject THEN r.newFiles.files ELSE @,
                                  !.call = NoCall]
                 /\ lastTool' = [kind |-> "createOrUpdateFiles", args |-> args, entries |-> entries,
                                 connected |-> connects, expired |-> sandboxExpired,
                                 sandbox |-> sandbox, turn |-> turns,
                                 failAt |-> failAt, before |-> files, replayOf |-> netCkpt.call,
                                 ret |-> [threw |-> r.threw, newFiles |-> r.newFiles]]
  /\ attempts' = 0
  /\ lastResponse' = NoResponse
  /\ UNCHANGED <<pc, memo, sandboxId, summary, turns, title, response, sandboxUrl,
                 sandboxCount, records, crashes, execCount>>
  /\ UNCHANGED <<sandboxExpired, webVars, otherVars>>

\* The process dies inside the createOrUpdateFiles step: wrote of the
\* entries have reached the sandbox, the step's result is not checkpointed.
\* The restarted function replays up to this step and runs it again.
CreateOrUpdateFilesCrash ==
  /\ pc = "network"
  /\ NoCallInProgress
  /\ ~netCkpt.call.pending
  /\ ~sandboxExpired
  /\ crashes < MaxCrashes
  /\ \E args \in FilesArgs :
       /\ filesSchema(args)
       /\ \E wrote \in 0..Len(args.files.items) :
            LET entries == EntriesOf(args)
                run == writeLoop(entries, 1, wrote + 1, files, sandboxFs)
            IN /\ sandboxFs' = run.fs
               /\ netCkpt' = [netCkpt EXCEPT !.call =
                                [pending |-> TRUE, args |-> args, fsBefore |-> sandboxFs,
                                 filesBefore |-> files]]
  /\ Restart
  /\ UNCHANGED <<memo, sandboxCount, records, attempts, execCount>>
  /\ UNCHANGED <<sandboxExpired, webVars, otherVars>>

PathsOf(args) == [i \in 1..Len(args.files.items) |-> args.files.items[i].s]

ReadFilesTool ==
  /\ pc = "network"
  /\ NoCallInProgress
  /\ ~netCkpt.call.pending
  /\ \E args \in ReadFilesArgs :
       IF ~readFilesSchema(args) THEN lastTool' = Invalid("readFiles", args)
       ELSE \E connects \in BOOLEAN : \E failAt \in 0..Len(args.files.items) :
              LET sandbox == getSandbox(sandboxId, connects)
                  connected == ~sandbox.threw
                  paths == PathsOf(args)
              IN /\ sandboxExpired => ~connects
                 /\ ~connects => failAt = 0
                 /\ lastTool' = [kind |-> "readFiles", args |-> args, paths |-> paths,
                                 connected |-> connects, expired |-> sandboxExpired,
                                 sandbox |-> sandbox, turn |-> turns,
                                 failAt |-> failAt,
                                 ret |-> readFiles(paths, connected, failAt, sandboxFs)]
  /\ attempts' = 0
  /\ lastResponse' = NoResponse
  /\ UNCHANGED <<pc, memo, netCkpt, sandboxId, summary, files, turns, title, response,
                 sandboxUrl, sandboxFs, sandboxCount, records,
                 crashes, execCount>>
  /\ UNCHANGED <<sandboxExpired, webVars, otherVars>>

\* The handler's return value is appended to the conversation of the turn;
\* the agent then calls the next tool or answers.
ToolResultDelivered ==
  /\ pc = "network"
  /\ lastTool # NoTool
  /\ lastTool' = NoTool
  /\ UNCHANGED <<pc, memo, netCkpt, sandboxId, summary, files, turns, title, response,
                 sandboxUrl, sandboxFs, sandboxCount, records, lastResponse,
                 attempts, crashes, execCount>>
  /\ UNCHANGED <<sandboxExpired, webVars, otherVars>>

\* The model invocation of the coding agent rejects: the inference step
\* throws.
AgentFails ==
  /\ pc = "network"
  /\ NoCallInProgress
  /\ ~netCkpt.call.pending
  /\ StepFails
  /\ UNCHANGED <<memo, netCkpt, sandboxId, summary, files, turns, title, response,
                 sandboxUrl, sandboxFs, sandboxCount, records, lastTool, lastResponse,
                 crashes, execCount>>
  /\ UNCHANGED <<sandboxExpired, webVars, otherVars>>

\* The time set by sandbox.setTimeout passes without a reconnect: the
\* sandbox is reclaimed and Sandbox.connect rejects from now on.
SandboxTimeout ==
  /\ pc \in {"network", "generators", "get-sandbox-url"}
  /\ NoCallInProgress
  /\ ~sandboxExpired
  /\ sandboxExpired' = TRUE
  /\ UNCHANGED <<pc, memo, netCkpt, sandboxId, summary, files, turns, title, response,
                 sandboxUrl, sandboxFs, sandboxCount, records, lastTool, lastResponse,
                 attempts, crashes, execCount>>
  /\ UNCHANGED <<webVars, otherVars>>

AgentResponse ==
  /\ pc = "network"
  /\ NoCallInProgress
  /\ ~netCkpt.call.pending
  /\ \E output \in AgentOutputs :
       LET result == [output |-> output]
       IN /\ summary' = onResponse(summary, result)
          /\ lastResponse' = [text |-> lastAssistantTextMessageContent(result), before |-> summary,
                              output |-> output]
  /\ turns' = Min(turns + 1, MaxTurnsTracked)
  /\ netCkpt' = [netCkpt EXCEPT !.summary = summary', !.turns = turns',
                                !.filesAtDone = IF summary' # <<>> THEN files ELSE @]
  /\ pc' = IF router(Network(summary', files)) = "codeAgent" THEN "network" ELSE "generators"
  /\ attempts' = 0
  /\ UNCHANGED <<memo, sandboxId, files, lastTool, title, response, sandboxUrl, sandboxFs,
                 sandboxCount, records, crashes, execCount>>
  /\ UNCHANGED <<sandboxExpired, webVars, otherVars>>

\* ------------------------------------------------------------------------
\* fragment-title-generator and response-generator, get-sandbox-url,
\* save-result
\* ------------------------------------------------------------------------
Generators ==
  /\ pc = "generators"
  /\ IF stepRun("generators")
     THEN /\ \E fragmentTitleOutput \in FragmentTitleOutputs, responseOutput \in ResponseOutputs :
               /\ title' = parseAgentOutput(fragmentTitleOutput).value
               /\ response' = parseAgentOutput(responseOutput).value
               /\ memo' = [memo EXCEPT !.generators = TRUE, !.title = title', !.response = response',
                                       !.responseOutput = responseOutput]
          /\ execCount' = Ran("generators")
     ELSE /\ title' = memo.title
          /\ response' = memo.response
          /\ UNCHANGED <<memo, execCount>>
  /\ pc' = "get-sandbox-url"
  /\ UNCHANGED <<netCkpt, sandboxId, summary, files, turns, sandboxUrl, sandboxFs,
                 sandboxCount, records, lastTool, lastResponse, attempts, crashes>>
  /\ UNCHANGED <<sandboxExpired, webVars, otherVars>>

\* getSandbox(sandboxId) connects and sets the timeout; the url is
\* `https://${sandbox.getHost(3000)}`.
GetSandboxUrl ==
  /\ pc = "get-sandbox-url"
  /\ stepRun("get-sandbox-url") => ~sandboxExpired
  /\ IF stepRun("get-sandbox-url")
     THEN /\ sandboxUrl' = [scheme |-> "https", port |-> 3000, sandboxId |-> sandboxId]
          /\ memo' = [memo EXCEPT !.sandboxUrl = sandboxUrl']
          /\ execCount' = Ran("get-sandbox-url")
     ELSE /\ sandboxUrl' = memo.sandboxUrl
          /\ UNCHANGED <<memo, execCount>>
  /\ pc' = "save-result"
  /\ attempts' = 0
  /\ UNCHANGED <<netCkpt, sandboxId, summary, files, turns, title, response, sandboxFs,
                 sandboxCount, records, lastTool, lastResponse, crashes>>
  /\ UNCHANGED <<sandboxExpired, webVars, otherVars>>

GetSandboxUrlFails ==
  /\ pc = "get-sandbox-url"
  /\ stepRun("get-sandbox-url")
  /\ StepFails
  /\ execCount' = Ran("get-sandbox-url")
  /\ UNCHANGED <<memo, netCkpt, sandboxId, summary, files, turns, title, response,
                 sandboxUrl, sandboxFs, sandboxCount, records, lastTool, lastResponse, crashes>>
  /\ UNCHANGED <<sandboxExpired, webVars, otherVars>>

SaveResult ==
  /\ pc = "save-result"
  /\ IF stepRun("save-result")
     THEN /\ records' = Append(records, saveResult(summary, files, sandboxUrl, title, response))
          /\ memo' = [memo EXCEPT !.saved = TRUE]
          /\ execCount' = Ran("save-result")
     ELSE UNCHANGED <<records, memo, execCount>>
  /\ pc' = "done"
  /\ attempts' = 0
  /\ UNCHANGED <<netCkpt, sandboxId, summary, files, turns, title, response, sandboxUrl,
                 sandboxFs, sandboxCount, lastTool, lastResponse, crashes>>
  /\ UNCHANGED <<sandboxExpired, webVars, otherVars>>

\* prisma.message.create rejects: the step throws.
SaveResultFails ==
  /\ pc = "save-result"
  /\ stepRun("save-result")
  /\ StepFails
  /\ execCount' = Ran("save-result")
  /\ UNCHANGED <<memo, netCkpt, sandboxId, summary, files, turns, title, response,
                 sandboxUrl, sandboxFs, sandboxCount, records, lastTool, lastResponse, crashes>>
  /\ UNCHANGED <<sandboxExpired, webVars, otherVars>>

\* The process dies after prisma.message.create returned and before the
\* step's result is checkpointed.
SaveResultCrash ==
  /\ pc = "save-result"
  /\ stepRun("save-result")
  /\ crashes < MaxCrashes
  /\ records' = Append(records, saveResult(summary, files, sandboxUrl, title, response))
  /\ execCount' = Ran("save-result")
  /\ Restart
  /\ UNCHANGED <<memo, netCkpt, sandboxFs, sandboxCount, attempts>>
  /\ UNCHANGED <<sandboxExpired, webVars, otherVars>>

Next ==
  \/ GetSandboxId
  \/ GetSandboxIdCrash
  \/ GetSandboxIdFails
  \/ TerminalTool
  \/ CreateOrUpdateFilesTool
  \/ CreateOrUpdateFilesCrash
  \/ ReadFilesTool
  \/ ToolResultDelivered
  \/ AgentFails
  \/ SandboxTimeout
  \/ AgentResponse
  \/ Generators
  \/ GetSandboxUrl
  \/ GetSandboxUrlFails
  \/ SaveResult
  \/ SaveResultFails
  \/ SaveResultCrash
  \/ Crash

Spec == Init /\ [][Next]_vars

\* The runtime keeps running the function while a step is left to run, and
\* every model invocation of the coding agent returns: a turn that can be
\* answered is answered.
FairSpec == Spec /\ WF_vars(Next) /\ SF_vars(AgentResponse)

TypeOK ==
  /\ pc \in {"get-sandbox-id", "network", "generators", "get-sandbox-url", "save-result", "done", "failed"}
  /\ summary \in Texts \cup {<<"a", "OPEN", "a">>}
  /\ files \in FileMaps
  /\ sandboxFs \in FileMaps
  /\ turns \in 0..MaxTurnsTracked
  /\ crashes \in 0..MaxCrashes

\* ------------------------------------------------------------------------
\* The messages router: calls of messages.create and messages.getMany.  A
\* call passes the isAuthed middleware and the input parser, then the
\* procedure runs; every awaited operation of create is a step of its own,
\* so calls interleave.
\* ------------------------------------------------------------------------
runVars == <<pc, memo, netCkpt, sandboxId, summary, files, turns, title, response,
             sandboxUrl, sandboxFs, sandboxCount, records, lastTool, lastResponse,
             attempts, crashes, execCount, sandboxExpired>>

createOrderSendFirst == <<"lookup", "credits", "send", "insert", "done">>

\* The awaited operations of create in program order.
createOrder == <<"lookup", "credits", "insert", "send", "done">>

After(step) ==
  createOrder[1 + CHOOSE i \in 1..Len(createOrder) : createOrder[i] = step]

Rejected(r, error) == [requests EXCEPT ![r].pc = "failed", ![r].error = error]
Proceed(r, step) == [requests EXCEPT ![r].pc = After(step)]
UserIdOf(r) == requests[r].ctx.auth.userId

CreateCalled(r) ==
  /\ requests[r].pc = "idle"
  /\ \A q \in 1..(r - 1) : requests[q].pc # "idle"
  /\ \E ctx \in Contexts, input \in CreateInputs :
       requests' = [requests EXCEPT ![r] =
         IF ~isAuthed(ctx).next
         THEN [IdleRequest EXCEPT !.proc = "create", !.pc = "failed", !.ctx = ctx,
                                  !.error = isAuthed(ctx).error]
         ELSE IF ~createInputValid(input)
         THEN [IdleRequest EXCEPT !.proc = "create", !.pc = "failed", !.ctx = ctx, !.input = input,
                                  !.error = TRPCError("BAD_REQUEST", "Invalid input")]
         ELSE [IdleRequest EXCEPT !.proc = "create", !.pc = createOrder[1], !.ctx = ctx,
                                  !.input = input]]
  /\ UNCHANGED <<messages, events, usage>>
  /\ UNCHANGED <<runVars, otherVars>>

CreateLookup(r) ==
  /\ requests[r].pc = "lookup"
  /\ LET existingProject == findUnique(requests[r].input.projectId, UserIdOf(r).s)
         looked == [requests EXCEPT ![r].lookups = @ + 1]
     IN requests' = IF existingProject = NoProject
                    THEN [looked EXCEPT ![r].pc = "failed",
                                        ![r].error = TRPCError("NOT_FOUND", "Project not found")]
                    ELSE [looked EXCEPT ![r].pc = After("lookup")]
  /\ UNCHANGED <<messages, events, usage>>
  /\ UNCHANGED <<runVars, otherVars>>

CreateConsumeCredits(r) ==
  /\ requests[r].pc = "credits"
  /\ LET consumed == consumeCredits(UserIdOf(r), usage)
     IN /\ usage' = consumed.used
        /\ requests' = IF consumed.threw
                       THEN Rejected(r, TRPCError("TOO_MANY_REQUESTS", "You have run out of credits"))
                       ELSE Proceed(r, "credits")
  /\ UNCHANGED <<messages, events>>
  /\ UNCHANGED <<runVars, otherVars>>

CreateInsert(r) ==
  /\ requests[r].pc = "insert"
  /\ messages' = Append(messages, [req |-> r,
                   data |-> UserMessage(requests[r].input.projectId, requests[r].input.value)])
  /\ requests' = Proceed(r, "insert")
  /\ UNCHANGED <<events, usage>>
  /\ UNCHANGED <<runVars, otherVars>>

\* prisma.message.create rejects.
CreateInsertFails(r) ==
  /\ requests[r].pc = "insert"
  /\ requests' = Rejected(r, TRPCError("INTERNAL_SERVER_ERROR", "Database connection failed"))
  /\ UNCHANGED <<messages, events, usage>>
  /\ UNCHANGED <<runVars, otherVars>>

CreateSend(r) ==
  /\ requests[r].pc = "send"
  /\ events' = Append(events, [req |-> r,
                 event |-> CodeAgentRun(requests[r].input.value, requests[r].input.projectId)])
  /\ requests' = Proceed(r, "send")
  /\ UNCHANGED <<messages, usage>>
  /\ UNCHANGED <<runVars, otherVars>>

\* inngest.send rejects.
CreateSendFails(r) ==
  /\ requests[r].pc = "send"
  /\ requests' = Rejected(r, TRPCError("INTERNAL_SERVER_ERROR", "Inngest send failed"))
  /\ UNCHANGED <<messages, events, usage>>
  /\ UNCHANGED <<runVars, otherVars>>

GetManyCalled(r) ==
  /\ requests[r].pc = "idle"
  /\ \A q \in 1..(r - 1) : requests[q].pc # "idle"
  /\ \E ctx \in Contexts, projectId \in ProjectIds :
       requests' = [requests EXCEPT ![r] =
         IF ~isAuthed(ctx).next
         THEN [IdleRequest EXCEPT !.proc = "getMany", !.pc = "failed", !.ctx = ctx,
                                  !.error = isAuthed(ctx).error]
         ELSE LET found == getMany(messages, projectId, ctx.auth.userId.s)
              IN IF found.threw
                 THEN [IdleRequest EXCEPT !.proc = "getMany", !.pc = "failed", !.ctx = ctx,
                                          !.input = [NoInput EXCEPT !.projectId = projectId],
                                          !.error = TRPCError("BAD_REQUEST", "Invalid input")]
                 ELSE [IdleRequest EXCEPT !.proc = "getMany", !.pc = "done", !.ctx = ctx,
                                          !.input = [NoInput EXCEPT !.projectId = projectId],
                                          !.result = found.rows]]
  /\ UNCHANGED <<messages, events, usage>>
  /\ UNCHANGED <<runVars, otherVars>>

WebNext ==
  \E r \in Requests :
    \/ CreateCalled(r)
    \/ CreateLookup(r)
    \/ CreateConsumeCredits(r)
    \/ CreateInsert(r)
    \/ CreateInsertFails(r)
    \/ CreateSend(r)
    \/ CreateSendFails(r)
    \/ GetManyCalled(r)

WebSpec == Init /\ [][WebNext]_vars

\* ------------------------------------------------------------------------
\* The credit gate on its own: calls of consumeCredits from the start of a
\* window, and the end of a user's window.
\* ------------------------------------------------------------------------
ConsumeCreditsCalled ==
  /\ \E userId \in UserIds :
       LET result == consumeCredits(userId, usage)
       IN /\ usage' = result.used
          /\ lastConsume' = [called |-> TRUE, userId |-> userId, threw |-> result.threw,
                             error |-> result.error,
                             before |-> IF JsTruthy(userId) THEN usage[userId.s] ELSE 0,
                             after |-> IF JsTruthy(userId) THEN result.used[userId.s] ELSE 0]
  /\ UNCHANGED <<requests, messages, events, fleet>>
  /\ UNCHANGED runVars

\* duration seconds after a user's first consumption the limiter's row
\* expires and the count starts again.
WindowElapsed ==
  /\ \E u \in Users :
       /\ usage[u] > 0
       /\ usage' = [usage EXCEPT ![u] = 0]
  /\ lastConsume' = NoConsume
  /\ UNCHANGED <<requests, messages, events, fleet>>
  /\ UNCHANGED runVars

UsageInit == RunInit /\ WebInit /\ usage = [u \in Users |-> 0] /\ OtherInit

UsageNext ==
  \/ ConsumeCreditsCalled
  \/ WindowElapsed

UsageSpec == UsageInit /\ [][UsageNext]_vars

\* ------------------------------------------------------------------------
\* Concurrent runs.  step.run(name, fn) of run r looks up the step's id in
\* the store: a stored result is returned and fn is not called, otherwise
\* fn runs and its result is stored.  The steps of different runs
\* interleave.
\* ------------------------------------------------------------------------
stepIdNoIndex(run, name, index) == <<run, name, 0>>

stepIdNoRun(run, name, index) == <<0, name, index>>

\* The id of the index-th step named name of a run.
stepId(run, name, index) == <<run, name, index>>

Stored(key) == \E e \in fleet.store : e.key = key
StoredResult(key) == (CHOOSE e \in fleet.store : e.key = key).result
NoRet == Returned(<<>>)
NoNewFiles == StringValue(<<>>)
StepResult(id, ret, newFiles) == [sandboxId |-> id, ret |-> ret, newFiles |-> newFiles]
CountOf(calls, kind) == Cardinality({i \in 1..Len(calls) : calls[i].kind = kind})

\* What commands.run(command) prints in a sandbox with the files fs: ls
\* lists the files.
commandOutput(command, fs) ==
  IF command = "ls"
  THEN (IF fs["p1"] # Absent THEN <<"p1">> ELSE <<>>) \o (IF fs["p2"] # Absent THEN <<"p2">> ELSE <<>>)
  ELSE <<>>

FleetUrl(id) == [scheme |-> "https", port |-> 3000, sandboxId |-> id]

FleetGetSandboxId(r) ==
  LET run == fleet.runs[r]
      key == stepId(r, "get-sandbox-id", 0)
      id == fleet.created + 1
  IN /\ run.pc = "get-sandbox-id"
     /\ IF Stored(key)
        THEN fleet' = [fleet EXCEPT !.runs[r] =
                         [run EXCEPT !.pc = "network", !.sandboxId = StoredResult(key).sandboxId]]
        ELSE fleet' = [fleet EXCEPT
                         !.created = id,
                         !.sandboxes[id] = NoSandbox,
                         !.store = @ \cup {[key |-> key, result |-> StepResult(id, NoRet, NoNewFiles)]},
                         !.runs[r] = [run EXCEPT !.pc = "network", !.sandboxId = id]]
     /\ UNCHANGED <<runVars, webVars, lastConsume>>

FleetTerminal(r) ==
  LET run == fleet.runs[r]
      key == stepId(r, "terminal", CountOf(run.calls, "terminal"))
      sandbox == fleet.sandboxes[run.sandboxId]
  IN /\ run.pc = "network"
     /\ Len(run.calls) < MaxToolSteps
     /\ \E command \in Commands :
          LET call == [kind |-> "terminal", command |-> command, entries |-> <<>>]
              ret == IF Stored(key) THEN StoredResult(key).ret
                     ELSE terminal(command, TRUE, commandOutput(command, sandbox.fs), <<>>, NoError)
              returned == [run EXCEPT !.calls = Append(@, call),
                                      !.results = Append(@, StepResult(run.sandboxId, ret, NoNewFiles))]
          IN IF Stored(key)
             THEN fleet' = [fleet EXCEPT !.runs[r] = returned]
             ELSE fleet' = [fleet EXCEPT
                              !.sandboxes[run.sandboxId].commands = Append(@, command),
                              !.store = @ \cup {[key |-> key,
                                                 result |-> StepResult(run.sandboxId, ret, NoNewFiles)]},
                              !.runs[r] = returned]
     /\ UNCHANGED <<runVars, webVars, lastConsume>>

FleetCreateOrUpdateFiles(r) ==
  LET run == fleet.runs[r]
      key == stepId(r, "createOrUpdateFiles", CountOf(run.calls, "createOrUpdateFiles"))
      sandbox == fleet.sandboxes[run.sandboxId]
  IN /\ run.pc = "network"
     /\ Len(run.calls) < MaxToolSteps
     /\ \E entries \in FleetEntries :
          LET call == [kind |-> "createOrUpdateFiles", command |-> "", entries |-> entries]
              body == createOrUpdateFiles(run.files, entries, TRUE, 0, sandbox.fs)
              newFiles == IF Stored(key) THEN StoredResult(key).newFiles ELSE body.newFiles
              returned == [run EXCEPT
                             !.calls = Append(@, call),
                             !.results = Append(@, StepResult(run.sandboxId, NoRet, newFiles)),
                             !.files = IF Stored(key)
                                       THEN (IF newFiles.isObject THEN newFiles.files ELSE @)
                                       ELSE body.files]
          IN IF Stored(key)
             THEN fleet' = [fleet EXCEPT !.runs[r] = returned]
             ELSE fleet' = [fleet EXCEPT
                              !.sandboxes[run.sandboxId].fs = body.fs,
                              !.store = @ \cup {[key |-> key,
                                                 result |-> StepResult(run.sandboxId, NoRet, newFiles)]},
                              !.runs[r] = returned]
     /\ UNCHANGED <<runVars, webVars, lastConsume>>

FleetAgentResponse(r) ==
  LET run == fleet.runs[r]
      result == [output |-> <<Message("assistant", StringContent(MarkerText))>>]
      newSummary == onResponse(run.summary, result)
  IN /\ run.pc = "network"
     /\ fleet' = [fleet EXCEPT !.runs[r] =
                    [run EXCEPT !.summary = newSummary,
                                !.pc = IF router(Network(newSummary, run.files)) = "codeAgent"
                                       THEN "network" ELSE "save-result"]]
     /\ UNCHANGED <<runVars, webVars, lastConsume>>

FleetSaveResult(r) ==
  LET run == fleet.runs[r]
  IN /\ run.pc = "save-result"
     /\ fleet' = [fleet EXCEPT !.runs[r] =
                    [run EXCEPT !.pc = "done",
                                !.record = <<saveResult(run.summary, run.files, FleetUrl(run.sandboxId),
                                                        <<"a">>, <<"a">>)>>]]
     /\ UNCHANGED <<runVars, webVars, lastConsume>>

FleetNext ==
  \E r \in Runs :
    \/ FleetGetSandboxId(r)
    \/ FleetTerminal(r)
    \/ FleetCreateOrUpdateFiles(r)
    \/ FleetAgentResponse(r)
    \/ FleetSaveResult(r)

FleetSpec == Init /\ [][FleetNext]_vars

\* ------------------------------------------------------------------------
\* Properties
\* ------------------------------------------------------------------------
Contains(s, sub) == \E i \in 1..(Len(s) - Len(sub) + 1) : SubSeq(s, i, i + Len(sub) - 1) = sub
RunEnded == pc \in {"done", "failed"}
StepOrder == <<"get-sandbox-id", "generators", "get-sandbox-url", "save-result">>
StepIndex(s) == CHOOSE i \in 1..Len(StepOrder) : StepOrder[i] = s

\* C1: every terminal record that is written has type RESULT, with a
\* fragment carrying the sandbox url, the title and the files, only if at
\* that moment summary is non-empty and files has a key; whenever summary is
\* empty or files has no key the record has type ERROR, the fixed content
\* and no fragment.
C1_ResultOnlyWithSummaryAndFiles ==
  [][Len(records') > Len(records) =>
       LET r == records'[Len(records')]
           complete == summary # <<>> /\ Keys(files) # {}
       IN /\ r.type \in {"RESULT", "ERROR"}
          /\ r.type = "RESULT" =>
               /\ complete
               /\ r.fragment = [present |-> TRUE, sandboxUrl |-> sandboxUrl,
                                title |-> title, files |-> files]
          /\ ~complete =>
               /\ r.type = "ERROR"
               /\ r.content = <<GenericFailure>>
               /\ ~r.fragment.present]_vars

C1_Witness ==
  /\ pc = "done"
  /\ Len(records) = 1
  /\ records[1].type = "RESULT"
  /\ Keys(records[1].fragment.files) # {}

\* C2: once the run has ended it has exactly one terminal record.
C2_ExactlyOneTerminalRecord == RunEnded => Len(records) = 1

\* C3: a step whose result is checkpointed never runs its body again, its
\* later invocations hand back the memoized result, and a body runs only
\* when every step before it in program order is checkpointed.
C3_CheckpointedStepNotRerun ==
  [][/\ \A s \in StepNames :
          /\ Checkpointed(s) => execCount'[s] = execCount[s]
          /\ execCount'[s] > execCount[s] =>
               /\ \A t \in StepNames : StepIndex(t) < StepIndex(s) => Checkpointed(t)
               /\ s # "get-sandbox-id" =>
                    router(Network(netCkpt.summary, netCkpt.files)) = "undefined"
     /\ (pc = "get-sandbox-id" /\ pc' # pc /\ Checkpointed("get-sandbox-id") /\ crashes' = crashes)
          => sandboxId' = memo.sandboxId /\ sandboxCount' = sandboxCount
     /\ (pc = "generators" /\ pc' = "get-sandbox-url" /\ Checkpointed("generators"))
          => title' = memo.title /\ response' = memo.response
     /\ (pc = "get-sandbox-url" /\ pc' = "save-result" /\ Checkpointed("get-sandbox-url"))
          => sandboxUrl' = memo.sandboxUrl
     /\ (pc = "save-result" /\ pc' = "done" /\ Checkpointed("save-result"))
          => records' = records]_vars

C3_Witness ==
  /\ crashes > 0
  /\ pc = "done"
  /\ \A s \in StepNames : execCount[s] = 1

\* C4: the turn loop always terminates: every run eventually leaves the
\* agent network.
C4_TurnLoopTerminates == <>(pc \notin {"get-sandbox-id", "network"})

\* C5: the router returns the coding agent exactly when summary is empty,
\* whatever the files are, and the run is in the turn loop only while
\* summary is empty.
C5_RouterDependsOnSummaryOnly ==
  /\ \A f \in FileMaps :
       router(Network(summary, f)) = IF summary = <<>> THEN "codeAgent" ELSE "undefined"
  /\ pc = "network" => summary = <<>>
  /\ pc \in {"generators", "get-sandbox-url", "save-result", "done"} => summary # <<>>

C5_Witness ==
  /\ pc = "generators"
  /\ summary # <<>>
  /\ Keys(files) = {}

HasCompleteMarker(t) ==
  \E i \in 1..Len(t) : \E j \in (i + 1)..Len(t) : t[i] = "OPEN" /\ t[j] = "CLOSE"

Enclosed(t) ==
  LET i == CHOOSE k \in 1..Len(t) : t[k] = "OPEN" /\ \A m \in 1..(k - 1) : t[m] # "OPEN"
      j == CHOOSE k \in (i + 1)..Len(t) : t[k] = "CLOSE" /\ \A m \in (i + 1)..(k - 1) : t[m] # "CLOSE"
  IN SubSeq(t, i + 1, j - 1)

\* C6 as claimed: after a turn whose last assistant text holds an opening
\* tag and a later closing tag, summary is the text between the two tags and
\* the loop is left; after any other turn summary is unchanged and the loop
\* goes on.
C6_SummaryIsEnclosedText ==
  [][AgentResponse =>
       LET t == lastResponse'.text
       IN IF t # Undefined /\ HasCompleteMarker(t)
          THEN summary' = Enclosed(t) /\ pc' = "generators"
          ELSE summary' = summary /\ pc' = "network"]_vars

\* C6 as amended: after a turn whose last assistant text contains
\* "task_summary>", summary is that whole text and the loop is left; after
\* any other turn summary is unchanged and the loop goes on.
C6_SummaryIsWholeText ==
  [][AgentResponse =>
       LET t == lastResponse'.text
       IN IF t # Undefined /\ IncludesTaskSummary(t)
          THEN summary' = t /\ pc' = "generators"
          ELSE summary' = summary /\ pc' = "network"]_vars

C6_Witness ==
  /\ pc = "generators"
  /\ lastResponse.text = <<"a", "OPEN", "a", "CLOSE">>
  /\ summary = lastResponse.text

\* C7: the terminal handler never throws; when connecting or the command
\* throws, its result contains "Command failed" and the stdout and the
\* stderr received before the failure; when the command succeeds the result
\* is the captured stdout.
C7_RunCommandNeverThrows ==
  lastTool.kind = "terminal" =>
    /\ ~lastTool.ret.threw
    /\ (~lastTool.connected \/ lastTool.error # NoError) =>
         /\ Contains(lastTool.ret.value, <<"Command failed">>)
         /\ Contains(lastTool.ret.value, lastTool.onStdout)
         /\ Contains(lastTool.ret.value, lastTool.onStderr)
    /\ (lastTool.connected /\ lastTool.error = NoError) =>
         lastTool.ret.value = lastTool.onStdout

C7_Witness ==
  /\ lastTool.kind = "terminal"
  /\ lastTool.error = CommandError
  /\ Len(lastTool.onStdout) = 2
  /\ lastTool.onStderr # <<>>

\* C8: a createOrUpdateFiles call in which a write fails returns a string
\* starting with "Error: ", does not throw, and leaves
\* network.state.data.files as it was before the call.
C8_FailedWriteLeavesFilesUnchanged ==
  (lastTool.kind = "createOrUpdateFiles" /\ ~lastTool.ret.newFiles.isObject) =>
    /\ ~lastTool.ret.threw
    /\ Head(lastTool.ret.newFiles.text) = "Error: "
    /\ files = lastTool.before

LastIndexOf(entries, p) ==
  CHOOSE i \in 1..Len(entries) :
    entries[i].path = p /\ \A j \in (i + 1)..Len(entries) : entries[j].path # p

\* C9: after a successful createOrUpdateFiles call every path of the call
\* maps to the content of the last entry with that path and every other
\* path maps to what it mapped to before the call.
C9_MergeLastWriteWins ==
  (lastTool.kind = "createOrUpdateFiles" /\ lastTool.ret.newFiles.isObject) =>
    /\ lastTool.ret.newFiles.files = files
    /\ \A p \in Paths :
         IF \E i \in 1..Len(lastTool.entries) : lastTool.entries[i].path = p
         THEN files[p] = lastTool.entries[LastIndexOf(lastTool.entries, p)].content
         ELSE files[p] = lastTool.before[p]

C9_Witness ==
  /\ lastTool.kind = "createOrUpdateFiles"
  /\ lastTool.ret.newFiles.isObject
  /\ Len(lastTool.entries) = 2
  /\ lastTool.entries[1].path = lastTool.entries[2].path
  /\ lastTool.entries[1].content # lastTool.entries[2].content
  /\ \E p \in Keys(lastTool.before) : p # lastTool.entries[1].path

AllReadsSucceed ==
  /\ lastTool.connected
  /\ lastTool.failAt = 0
  /\ \A i \in 1..Len(lastTool.paths) : sandboxFs[lastTool.paths[i]] # Absent

\* C10: a readFiles call never throws; when every read succeeds its result
\* is the JSON text of an array with one {path, content} object per input
\* path, in input order; when a read fails the result starts with "Error: "
\* and contains no file content.
C10_ReadFilesOrderedOrError ==
  lastTool.kind = "readFiles" =>
    LET v == lastTool.ret.value
        n == Len(lastTool.paths)
    IN /\ ~lastTool.ret.threw
       /\ AllReadsSucceed =>
            /\ Len(v) = 2 + 5 * n + (IF n > 0 THEN n - 1 ELSE 0)
            /\ v[1] = "["
            /\ v[Len(v)] = "]"
            /\ \A k \in 1..n :
                 LET at == 2 + 6 * (k - 1)
                 IN /\ v[at] = "{\"path\":"
                    /\ v[at + 1] = lastTool.paths[k]
                    /\ v[at + 2] = ",\"content\":"
                    /\ v[at + 3] = sandboxFs[lastTool.paths[k]]
                    /\ v[at + 4] = "}"
                    /\ k < n => v[at + 5] = ","
       /\ ~AllReadsSucceed =>
            /\ Head(v) = "Error: "
            /\ \A i \in 1..Len(v) : v[i] \notin Contents

C10_Witness ==
  /\ lastTool.kind = "readFiles"
  /\ AllReadsSucceed
  /\ Len(lastTool.paths) = 2
  /\ lastTool.paths[1] # lastTool.paths[2]
  /\ sandboxFs[lastTool.paths[1]] # sandboxFs[lastTool.paths[2]]

\* C11: a step whose body fails (sandbox create, connect, model invocation)
\* is retried while fewer than MaxAttempts attempts have failed; the failure
\* of the last allowed attempt fails the run, which then stays failed; no
\* step ever has more than MaxAttempts failed attempts.
C11_RetriesBounded ==
  /\ [](attempts <= MaxAttempts /\ (attempts = MaxAttempts => pc = "failed"))
  /\ [][/\ attempts' > attempts =>
             /\ attempts' = attempts + 1
             /\ pc \in {"get-sandbox-id", "network", "get-sandbox-url", "save-result"}
             /\ pc' = IF attempts' < MaxAttempts THEN pc ELSE "failed"
        /\ pc = "failed" => pc' = "failed"]_vars

C11_Witness ==
  /\ pc = "failed"
  /\ attempts = MaxAttempts
  /\ sandboxId # 0
  /\ ~memo.generators

IsToolCall(t) == t.kind \in {"terminal", "createOrUpdateFiles", "readFiles"}

\* C12: a tool call made after the sandbox's idle timeout was exceeded
\* makes its step throw, and the throw counts as a failed attempt of the
\* step.
C12_ExpiredSessionFailsToolStep ==
  (IsToolCall(lastTool) /\ lastTool.expired) =>
    /\ lastTool.ret.threw
    /\ attempts > 0

ExpectedText(output) ==
  IF output.type # "text" THEN <<"Fragment">>
  ELSE IF output.content.type = "chunks" THEN Join(output.content.chunks)
  ELSE output.content.text

\* C13: parseAgentOutput of the response generator's output is decided by
\* the first message alone: the string of a text message, the concatenation
\* of the chunks' texts of a text message with chunks, "Fragment" for any
\* other kind; on the empty sequence it throws.
C13_ParseAgentOutputOfFirstMessage ==
  /\ parseAgentOutput(<<>>).threw
  /\ memo.generators =>
       /\ ~parseAgentOutput(memo.responseOutput).threw
       /\ memo.response = ExpectedText(memo.responseOutput[1])

RowsOf(r) == {i \in 1..Len(messages) : messages[i].req = r}
EventsOf(r) == {i \in 1..Len(events) : events[i].req = r}
IsCreate(r) == requests[r].proc = "create"
\* The calls of create that got past consumeCredits.
Consumed(r) ==
  /\ IsCreate(r)
  /\ \/ requests[r].pc \in {"insert", "send", "done"}
     \/ requests[r].pc = "failed" /\ requests[r].error.code = "INTERNAL_SERVER_ERROR"

\* C14: every code-agent/run event belongs to a call that consumed a
\* credit, every such call consumed exactly one, no user consumes more than
\* the quota, and a call whose consumeCredits failed (quota exhausted, or no
\* user id) leaves the quota as it was and has neither an event nor a row.
C14_RunOnlyAfterCreditConsumed ==
  /\ \A u \in Users :
       /\ usage[u] <= getUsageTracker(u).points
       /\ usage[u] - InitialUsage[u] =
            GENERATION_COST * Cardinality({r \in Requests : Consumed(r) /\ UserIdOf(r) = JString(u)})
  /\ \A i \in 1..Len(events) : Consumed(events[i].req)
  /\ \A r \in Requests :
       requests[r].error.code = "TOO_MANY_REQUESTS" =>
         /\ usage[UserIdOf(r).s] = getUsageTracker(UserIdOf(r).s).points
         /\ RowsOf(r) = {}
         /\ EventsOf(r) = {}
  /\ \A i \in 1..Len(messages) : messages[i].data.type # "ERROR"
  /\ \A id \in UserIds :
       ~JsTruthy(id) => consumeCredits(id, usage).threw /\ consumeCredits(id, usage).used = usage

C14_Witness ==
  \E r, q \in Requests :
    /\ requests[r].error.code = "TOO_MANY_REQUESTS"
    /\ requests[q].pc = "done"
    /\ IsCreate(q)
    /\ UserIdOf(q) = UserIdOf(r)

InputInvalid(input) ==
  \/ input.value = 0
  \/ input.value > 10000
  \/ input.projectId = ""

NotOwned(r) ==
  \/ requests[r].input.projectId \notin DOMAIN ProjectOwner
  \/ ProjectOwner[requests[r].input.projectId] # UserIdOf(r).s

\* C15: a call of create with an invalid input makes no project lookup,
\* inserts no row and sends no event; a call for a project that is missing
\* or another user's fails with NOT_FOUND "Project not found", inserts no
\* row and sends no event.
C15_NoSideEffectsUnlessValidAndOwned ==
  \A r \in Requests :
    (IsCreate(r) /\ requests[r].pc # "lookup") =>
      /\ InputInvalid(requests[r].input) =>
           /\ requests[r].pc = "failed"
           /\ requests[r].lookups = 0
           /\ RowsOf(r) = {}
           /\ EventsOf(r) = {}
      /\ (~InputInvalid(requests[r].input) /\ NotOwned(r)) =>
           /\ requests[r].pc = "failed"
           /\ requests[r].error = TRPCError("NOT_FOUND", "Project not found")
           /\ RowsOf(r) = {}
           /\ EventsOf(r) = {}

C15_Witness ==
  \E r, q \in Requests :
    /\ requests[r].error.code = "NOT_FOUND"
    /\ requests[r].input.projectId = "pB"
    /\ UserIdOf(r) = JString("u1")
    /\ requests[q].error.code = "BAD_REQUEST"
    /\ requests[q].input.value = MaxValueLength + 1
    /\ messages = InitialMessages

\* C16: every event sent belongs to a call that looked the project up and
\* whose row is already in the table, and carries the row's value and
\* projectId; a call sends at most one event and inserts at most one row; a
\* call whose insert failed has no event; every completed call has exactly
\* one row and one event, so N completed calls have N rows and N events.
C16_EventOnlyAfterInsert ==
  /\ \A i \in 1..Len(events) :
       LET r == events[i].req
       IN /\ requests[r].lookups = 1
          /\ \E j \in RowsOf(r) :
               /\ messages[j].data.content = events[i].event.data.value
               /\ messages[j].data.projectId = events[i].event.data.projectId
          /\ events[i].event = CodeAgentRun(requests[r].input.value, requests[r].input.projectId)
  /\ \A r \in Requests :
       /\ Cardinality(EventsOf(r)) <= 1
       /\ Cardinality(RowsOf(r)) <= 1
       /\ requests[r].error.message = "Database connection failed" => EventsOf(r) = {}
       /\ (IsCreate(r) /\ requests[r].pc = "done") =>
            Cardinality(EventsOf(r)) = 1 /\ Cardinality(RowsOf(r)) = 1
  /\ Len(events) = Cardinality({r \in Requests : IsCreate(r) /\ requests[r].pc = "done"})
  /\ Len(messages) >= Len(events)

C16_Witness ==
  /\ Len(events) = 2
  /\ Len(messages) = Len(InitialMessages) + 2
  /\ messages[Len(messages)].req = events[1].req
  /\ events[1].event.data.value # events[2].event.data.value

\* The constraints of the tools' arguments as the claim states them.
ViolatesDeclared(t) ==
  CASE t.kind = "invalid" -> TRUE
    [] t.kind = "terminal" -> ~zString(t.args.command) \/ t.args.command.s = ""
    [] t.kind = "createOrUpdateFiles" -> ~filesSchema(t.args)
    [] t.kind = "readFiles" -> ~readFilesSchema(t.args)
    [] OTHER -> FALSE

\* C17: a tool call whose arguments violate the declared constraints
\* (command not a non-empty string, an entry without a string path or
\* content, files not a sequence of strings) never reaches the handler and
\* leaves files and the sandbox as they were.
C17_MalformedCallsRejected ==
  ViolatesDeclared(lastTool) =>
    /\ lastTool.kind = "invalid"
    /\ files = lastTool.before
    /\ sandboxFs = lastTool.fsBefore

\* C18: a run that failed has the generic failure record, and the content
\* of every record is the generic message or the parsed response.
C18_FatalPathShowsGenericMessage ==
  /\ pc = "failed" =>
       \E i \in 1..Len(records) : records[i] = ErrorRecord
  /\ \A i \in 1..Len(records) :
       \/ records[i].content = <<GenericFailure>>
       \/ records[i].type = "RESULT" /\ records[i].content = memo.response

FalsyUserIds == {JString(""), JNumber("0"), JBoolean("false"), JNull, JUndefined}
Authenticated(ctx) == ctx.auth.t = "object" /\ ctx.auth.userId \notin FalsyUserIds

RECURSIVE OwnRows(_, _)
OwnRows(rows, u) ==
  IF rows = <<>> THEN <<>>
  ELSE IF ProjectOwner[Head(rows).data.projectId] = u
       THEN <<Head(rows)>> \o OwnRows(Tail(rows), u)
       ELSE OwnRows(Tail(rows), u)

OtherUsersRows(u) ==
  {[req |-> 0, data |-> UserMessage(p, v)] :
     p \in {q \in DOMAIN ProjectOwner : ProjectOwner[q] # u}, v \in {1, MaxValueLength}}

InsertAt(rows, k, row) == SubSeq(rows, 1, k) \o <<row>> \o SubSeq(rows, k + 1, Len(rows))

\* C20: what getMany returns to user u for project p are rows of p, p is
\* u's, and the result is the same in every table that differs from the
\* current one only in rows of other users' projects (those rows removed, or
\* one more such row anywhere).
C20_GetManyIgnoresOtherUsersRows ==
  [][\A r \in Requests :
       (requests[r].pc = "idle" /\ requests'[r].proc = "getMany" /\ requests'[r].pc = "done") =>
         LET u == requests'[r].ctx.auth.userId.s
             p == requests'[r].input.projectId
             res == requests'[r].result
         IN /\ \A i \in 1..Len(res) :
                 res[i].projectId = p /\ p \in DOMAIN ProjectOwner /\ ProjectOwner[p] = u
            /\ res = getMany(OwnRows(messages, u), p, u).rows
            /\ \A row \in OtherUsersRows(u) : \A k \in 0..Len(messages) :
                 res = getMany(InsertAt(messages, k, row), p, u).rows]_vars

C20_Witness ==
  \E r \in Requests :
    /\ requests[r].proc = "getMany"
    /\ requests[r].pc = "done"
    /\ Len(requests[r].result) = 2
    /\ \E i \in 1..Len(messages) :
         ProjectOwner[messages[i].data.projectId] # requests[r].ctx.auth.userId.s

\* ------------------------------------------------------------------------
\* Order of calls, generators, sandbox session, getSandbox, last assistant
\* message, absorbing DONE, crash inside a write step
\* ------------------------------------------------------------------------
StartsToolCall == lastTool' # lastTool /\ lastTool' # NoTool
AnswersTurn == lastResponse' # NoResponse /\ (lastResponse' # lastResponse \/ turns' # turns)

\* C21: within one run at most one model invocation or tool call is in
\* progress: a tool call starts only when no other call is in progress, in
\* the turn that issued it, and sees the files every earlier call of the
\* run has written; the agent's answer that ends a turn comes only when
\* every tool call of the turn has completed.
C21_OneCallAtATime ==
  [][/\ StartsToolCall =>
          /\ lastTool = NoTool
          /\ pc = "network" /\ pc' = "network"
          /\ turns' = turns /\ summary' = summary
          /\ lastTool'.kind = "createOrUpdateFiles" => lastTool'.before = files
          /\ (lastTool'.kind = "readFiles" /\ lastTool'.connected /\ lastTool'.failAt = 0) =>
               lastTool'.ret = readFiles(lastTool'.paths, TRUE, 0, sandboxFs)
     /\ AnswersTurn => (lastTool = NoTool /\ lastTool' = NoTool)]_vars

\* A readFiles call of the first turn that reads a file an earlier
\* createOrUpdateFiles call of the run has written.
C21_Witness ==
  /\ lastTool.kind = "readFiles"
  /\ lastTool.connected /\ lastTool.failAt = 0
  /\ lastTool.turn = 0
  /\ Len(lastTool.paths) = 1
  /\ sandboxFs[lastTool.paths[1]] # Absent
  /\ files[lastTool.paths[1]] = sandboxFs[lastTool.paths[1]]
  /\ crashes = 0

\* C23: the title and response generators run only when summary is
\* non-empty, never in a run that has failed, and they have run before any
\* terminal record is persisted.
C23_GeneratorsOnlyAfterDone ==
  /\ [][execCount'["generators"] # execCount["generators"] =>
          /\ summary # <<>>
          /\ netCkpt.summary # <<>>
          /\ pc = "generators"
          /\ records' = records]_vars
  /\ [](records # <<>> => memo.generators)

C23_Witness ==
  /\ pc = "done"
  /\ memo.generators
  /\ execCount["generators"] = 1
  /\ Len(records) = 1
  /\ summary # <<>>

\* C24: Sandbox.create runs at most once per run, also across crashes and
\* retries, and every tool step and get-sandbox-url connect to the id that
\* create returned.
C24_OneSandboxSessionPerRun ==
  /\ sandboxCount <= 1
  /\ sandboxId \in {0, memo.sandboxId}
  /\ IsToolCall(lastTool) => lastTool.sandbox.calls[1].id = memo.sandboxId
  /\ sandboxUrl # NoUrl => sandboxUrl.sandboxId = memo.sandboxId

IsLastAssistant(output, i) ==
  /\ i \in 1..Len(output)
  /\ output[i].role = "assistant"
  /\ \A j \in (i + 1)..Len(output) : output[j].role # "assistant"

RECURSIVE InOrderConcatenation(_, _)
InOrderConcatenation(chunks, n) ==
  IF n = 0 THEN <<>> ELSE InOrderConcatenation(chunks, n - 1) \o chunks[n]

ExpectedContent(output) ==
  IF ~\E i \in 1..Len(output) : IsLastAssistant(output, i) THEN Undefined
  ELSE LET c == output[CHOOSE i \in 1..Len(output) : IsLastAssistant(output, i)].content
       IN CASE c.type = "string" -> (IF c.text = <<>> THEN Undefined ELSE c.text)
            [] c.type = "chunks" -> InOrderConcatenation(c.chunks, Len(c.chunks))
            [] OTHER -> Undefined

\* C26: lastAssistantTextMessageContent returns the content of the last
\* assistant message of result.output, whatever follows it: a string as it
\* is, chunks as the concatenation of their texts in order, undefined when
\* there is no assistant message or its content is "" or null.
C26_LastAssistantContent ==
  lastResponse # NoResponse => lastResponse.text = ExpectedContent(lastResponse.output)

C26_Witness ==
  /\ Len(lastResponse.output) = 2
  /\ lastResponse.output[1].role = "assistant"
  /\ lastResponse.output[2].role = "tool"
  /\ lastResponse.text = <<"OPEN", "a", "CLOSE">>

\* C28: once summary is non-empty it does not change, no further turn of
\* the coding agent starts and no tool call executes, and the files of a
\* persisted fragment are the files of the moment the marker was detected.
C28_DoneIsAbsorbing ==
  /\ [][netCkpt.summary # <<>> =>
          /\ netCkpt'.summary = netCkpt.summary
          /\ summary' \in {summary, netCkpt.summary, <<>>}
          /\ (summary # <<>> /\ crashes' = crashes) => summary' = summary
          /\ ~StartsToolCall
          /\ ~AnswersTurn
          /\ sandboxFs' = sandboxFs]_vars
  /\ [](\A i \in 1..Len(records) :
          records[i].type = "RESULT" => records[i].fragment.files = netCkpt.filesAtDone)

\* C29: when the process dies inside a createOrUpdateFiles step and the
\* restarted run executes the step again, the sandbox's files and
\* network.state.data.files are those of the same call executed without a
\* crash.
C29_WriteStepReplayEqualsCrashFree ==
  (/\ lastTool.kind = "createOrUpdateFiles"
   /\ lastTool.replayOf.pending
   /\ lastTool.connected /\ lastTool.failAt = 0) =>
    LET solo == createOrUpdateFiles(lastTool.replayOf.filesBefore, lastTool.entries, TRUE, 0,
                                    lastTool.replayOf.fsBefore)
    IN /\ sandboxFs = solo.fs
       /\ files = solo.files

\* The sandbox ends with the files of the crash-free execution.
WriteReplayLeavesSandboxAsCrashFree ==
  (/\ lastTool.kind = "createOrUpdateFiles"
   /\ lastTool.replayOf.pending
   /\ lastTool.connected /\ lastTool.failAt = 0) =>
    sandboxFs = createOrUpdateFiles(lastTool.replayOf.filesBefore, lastTool.entries, TRUE, 0,
                                    lastTool.replayOf.fsBefore).fs

\* ------------------------------------------------------------------------
\* Concurrent runs, steps with the same name, credits
\* ------------------------------------------------------------------------
AloneStart == [files |-> EmptyFiles, fs |-> EmptyFiles, commands |-> <<>>, results |-> <<>>]

\* What the first n calls of a run give when the run is the only one: its
\* files, its sandbox's files, the commands its sandbox has run, and the
\* results the calls returned.
RECURSIVE AloneAfter(_, _, _)
AloneAfter(calls, n, id) ==
  IF n = 0 THEN AloneStart
  ELSE LET s == AloneAfter(calls, n - 1, id)
           c == calls[n]
       IN IF c.kind = "terminal"
          THEN LET ret == terminal(c.command, TRUE, commandOutput(c.command, s.fs), <<>>, NoError)
               IN [s EXCEPT !.commands = Append(@, c.command),
                            !.results = Append(@, StepResult(id, ret, NoNewFiles))]
          ELSE LET w == createOrUpdateFiles(s.files, c.entries, TRUE, 0, s.fs)
               IN [s EXCEPT !.files = w.files, !.fs = w.fs,
                            !.results = Append(@, StepResult(id, NoRet, w.newFiles))]

Alone(r) == AloneAfter(fleet.runs[r].calls, Len(fleet.runs[r].calls), fleet.runs[r].sandboxId)

TerminalCommands(calls) ==
  LET idx == {i \in 1..Len(calls) : calls[i].kind = "terminal"}
      RECURSIVE InOrder(_)
      InOrder(n) == IF n = 0 THEN <<>>
                    ELSE IF n \in idx THEN Append(InOrder(n - 1), calls[n].command)
                    ELSE InOrder(n - 1)
  IN InOrder(Len(calls))

PlanLimit(u) == IF u \in ProUsers THEN PRO_POINTS ELSE FREE_POINTS
Remaining(u, used) == PlanLimit(u) - used

\* C30: within one window a free-plan user has consumed at most
\* FREE_POINTS credits and a pro user at most PRO_POINTS; the remaining
\* points are never below 0; a successful consumeCredits call reduces the
\* caller's remaining points by exactly 1, a failed one leaves them; a call
\* without a user id throws "User not authenticated" and consumes nothing.
C30_CreditsWithinPlanLimit ==
  /\ [](\A u \in Users : usage[u] <= PlanLimit(u) /\ Remaining(u, usage[u]) >= 0)
  /\ [](lastConsume.called =>
          IF ~JsTruthy(lastConsume.userId)
          THEN lastConsume.threw /\ lastConsume.error = NotAuthenticated
          ELSE LET u == lastConsume.userId.s
               IN /\ usage[u] = lastConsume.after
                  /\ IF lastConsume.threw
                     THEN Remaining(u, lastConsume.after) = Remaining(u, lastConsume.before)
                     ELSE Remaining(u, lastConsume.after) = Remaining(u, lastConsume.before) - 1
                  /\ lastConsume.threw <=> Remaining(u, lastConsume.before) = 0)
  /\ [][(lastConsume'.called /\ ~JsTruthy(lastConsume'.userId)) => usage' = usage]_vars

\* The free-plan user has used up the quota and the next call was rejected;
\* the pro user has consumed more than FREE_POINTS.
C30_Witness ==
  /\ usage["u1"] = FREE_POINTS
  /\ usage["u2"] > FREE_POINTS
  /\ lastConsume.called /\ lastConsume.threw
  /\ lastConsume.userId = JString("u1")

====
